---------------------------- MODULE Spec2Model ----------------------------
(***************************************************************************)
(* Model of the chess-board recognition core of python-ml-service:         *)
(*   app/fen_generator.py   generate_fen, validate_fen                     *)
(*   app/board_geometry.py  order_corners, perspective_correction,         *)
(*                          map_pieces_to_squares                          *)
(*   app/detector.py        full_pipeline                                  *)
(*                                                                         *)
(* Text is modelled as a sequence of characters, each character a          *)
(* one-character string; the character SUPERSCRIPT TWO (U+00B2), for       *)
(* which Python's str.isdigit() is True and int() raises ValueError, is    *)
(* written "^2".  A square name such as "e1" is the sequence <<"e","1">>.  *)
(***************************************************************************)
EXTENDS Integers, Sequences, FiniteSets, TLC

VARIABLES
    pc,                \* position in the run: which call has returned
    square_map,        \* occupancy map: square -> piece class name
    fen,               \* the notation string handed to / returned by the FEN code
    validation,        \* what validate_fen returned (or that it raised)
    corners,           \* order_corners: the input point array
    quad,              \* order_corners: what the call returned (or that it raised)
    piece_detections,  \* map_pieces_to_squares: the detection list
    board_bbox,        \* map_pieces_to_squares: the board box [x1, y1, x2, y2]
    warp_matrix,       \* map_pieces_to_squares: the 3 x 3 transform
    landed,            \* map_pieces_to_squares: local `square` of each iteration
    image,             \* full_pipeline: the frame, known by its size
    board_info,        \* full_pipeline: what detect_board returned
    board_crop,        \* full_pipeline: the crop, known by its size
    contour,           \* perspective_correction: what cv2 found in the crop
    executed,          \* full_pipeline: the steps run so far, in order
    pieces_list,       \* full_pipeline: the local pieces_list
    result,            \* full_pipeline: the record returned
    calls,             \* concurrent invocations: function and arguments of each thread
    frames,            \* concurrent invocations: the locals of each call
    threads            \* concurrent invocations: status and returned value of each thread

coreVars == <<pc, square_map, fen, validation, corners, quad,
              piece_detections, board_bbox, warp_matrix, landed>>

pipelineVars == <<image, board_info, board_crop, contour, executed,
                  pieces_list, result>>

threadVars == <<calls, frames, threads>>

vars == <<coreVars, pipelineVars, threadVars>>

----------------------------------------------------------------------------
(* Small helpers on sequences and functions.                                *)

EmptyMap == [s \in {} |-> "none"]

Range(f) == {f[x] : x \in DOMAIN f}

RECURSIVE Count(_, _)
\* str.count(ch) for a one-character argument
Count(s, ch) ==
    IF s = <<>> THEN 0
    ELSE (IF Head(s) = ch THEN 1 ELSE 0) + Count(Tail(s), ch)

RECURSIVE SplitFrom(_, _, _)
\* str.split(sep): cur is the group being read
SplitFrom(s, sep, cur) ==
    IF s = <<>> THEN <<cur>>
    ELSE IF Head(s) = sep THEN <<cur>> \o SplitFrom(Tail(s), sep, <<>>)
    ELSE SplitFrom(Tail(s), sep, Append(cur, Head(s)))

Split(s, sep) == SplitFrom(s, sep, <<>>)

RECURSIVE Join(_, _)
\* sep.join(parts)
Join(parts, sep) ==
    IF parts = <<>> THEN <<>>
    ELSE IF Len(parts) = 1 THEN parts[1]
    ELSE parts[1] \o <<sep>> \o Join(Tail(parts), sep)

\* str(n) for 0 <= n <= 9
DigitStr(n) == <<"0", "1", "2", "3", "4", "5", "6", "7", "8", "9">>[n + 1]

----------------------------------------------------------------------------
(* fen_generator.py                                                         *)

ValidLabels ==
    {"white_king", "white_queen", "white_rook", "white_bishop", "white_knight",
     "white_pawn", "black_king", "black_queen", "black_rook", "black_bishop",
     "black_knight", "black_pawn"}

PIECE_TO_FEN ==
    [l \in ValidLabels |->
        CASE l = "white_king"   -> "K"
          [] l = "white_queen"  -> "Q"
          [] l = "white_rook"   -> "R"
          [] l = "white_bishop" -> "B"
          [] l = "white_knight" -> "N"
          [] l = "white_pawn"   -> "P"
          [] l = "black_king"   -> "k"
          [] l = "black_queen"  -> "q"
          [] l = "black_rook"   -> "r"
          [] l = "black_bishop" -> "b"
          [] l = "black_knight" -> "n"
          [] l = "black_pawn"   -> "p"]

\* PIECE_TO_FEN.get(piece_class, "?")
PieceChar(piece_class) ==
    IF piece_class \in DOMAIN PIECE_TO_FEN THEN PIECE_TO_FEN[piece_class] ELSE "?"

FileChars == <<"a", "b", "c", "d", "e", "f", "g", "h">>

\* file_char + str(rank_num)
SquareName(file_idx, rank_num) == <<FileChars[file_idx + 1], DigitStr(rank_num)>>

Squares == {SquareName(f, r) : f \in 0..7, r \in 1..8}

RECURSIVE RankString(_, _, _, _, _)
\* the inner loop of generate_fen over file_idx, with its trailing flush
RankString(sq_map, rank_num, file_idx, rank_str, empty_count) ==
    IF file_idx > 7
    THEN IF empty_count > 0 THEN Append(rank_str, DigitStr(empty_count))
         ELSE rank_str
    ELSE LET square == SquareName(file_idx, rank_num) IN
         IF square \in DOMAIN sq_map
         THEN LET flushed == IF empty_count > 0
                             THEN Append(rank_str, DigitStr(empty_count))
                             ELSE rank_str
              IN RankString(sq_map, rank_num, file_idx + 1,
                            Append(flushed, PieceChar(sq_map[square])), 0)
         ELSE RankString(sq_map, rank_num, file_idx + 1, rank_str, empty_count + 1)

\* variant: the outer loop walks rank 1 up to rank 8
RankStringsAscending(sq_map) == [i \in 1..8 |-> RankString(sq_map, i, 0, <<>>, 0)]

\* ranks, in the order the outer loop appends them: rank 8 first
RankStrings(sq_map) == [i \in 1..8 |-> RankString(sq_map, 9 - i, 0, <<>>, 0)]

AuxFields == <<" ", "w", " ", "K", "Q", "k", "q", " ", "-", " ", "0", " ", "1">>

generate_fen(sq_map) == Join(RankStrings(sq_map), "/") \o AuxFields

----------------------------------------------------------------------------
(* validate_fen                                                             *)

VALID_BOARD_CHARS ==
    {"r", "n", "b", "q", "k", "p", "R", "N", "B", "Q", "K", "P",
     "1", "2", "3", "4", "5", "6", "7", "8"}

AsciiDigits == {"0", "1", "2", "3", "4", "5", "6", "7", "8", "9"}

\* str.isdigit(): the ASCII digits, and also characters such as U+00B2
IsDigit(ch) == ch \in AsciiDigits \cup {"^2"}

\* int(ch) is defined for the decimal digits only; int("^2") raises ValueError
IntRaises(ch) == ch \notin AsciiDigits

IntOf(ch) == CHOOSE n \in 0..9 : DigitStr(n) = ch

Err(kind, ch, n, rank) == [kind |-> kind, ch |-> ch, n |-> n, rank |-> rank]

\* fen.split(" ")[0] if " " in fen else fen
BoardPart(f) == IF Count(f, " ") > 0 THEN Split(f, " ")[1] ELSE f

RankCountErrors(ranks) ==
    IF Len(ranks) # 8 THEN <<Err("rank_count", "", Len(ranks), 0)>> ELSE <<>>

RECURSIVE InvalidCharErrors(_)
InvalidCharErrors(board_part) ==
    IF board_part = <<>> THEN <<>>
    ELSE LET ch == Head(board_part) IN
         (IF ch # "/" /\ ch \notin VALID_BOARD_CHARS
          THEN <<Err("invalid_char", ch, 0, 0)>> ELSE <<>>)
         \o InvalidCharErrors(Tail(board_part))

RECURSIVE RankTotal(_)
\* the inner loop over one rank: digits add their value, anything else adds 1
RankTotal(rank) ==
    IF rank = <<>> THEN 0
    ELSE (IF IsDigit(Head(rank)) THEN IntOf(Head(rank)) ELSE 1) + RankTotal(Tail(rank))

RECURSIVE RankSumErrors(_, _)
\* i is the 0-based index of enumerate(ranks)
RankSumErrors(ranks, i) ==
    IF i >= Len(ranks) THEN <<>>
    ELSE LET total == RankTotal(ranks[i + 1]) IN
         (IF total # 8 THEN <<Err("rank_sum", "", total, 8 - i)>> ELSE <<>>)
         \o RankSumErrors(ranks, i + 1)

KingErrors(board_part) ==
    LET white_kings == Count(board_part, "K")
        black_kings == Count(board_part, "k")
    IN (IF white_kings # 1 THEN <<Err("white_king", "", white_kings, 0)>> ELSE <<>>)
       \o (IF black_kings # 1 THEN <<Err("black_king", "", black_kings, 0)>> ELSE <<>>)

\* variant: the pawn limit tested with >= instead of >
PawnErrorsOffByOne(board_part) ==
    LET white_pawns == Count(board_part, "P")
        black_pawns == Count(board_part, "p")
    IN (IF white_pawns >= 8 THEN <<Err("white_pawn", "", white_pawns, 0)>> ELSE <<>>)
       \o (IF black_pawns >= 8 THEN <<Err("black_pawn", "", black_pawns, 0)>> ELSE <<>>)

PawnErrors(board_part) ==
    LET white_pawns == Count(board_part, "P")
        black_pawns == Count(board_part, "p")
    IN (IF white_pawns > 8 THEN <<Err("white_pawn", "", white_pawns, 0)>> ELSE <<>>)
       \o (IF black_pawns > 8 THEN <<Err("black_pawn", "", black_pawns, 0)>> ELSE <<>>)

\* the call int(ch) of the rank-sum loop raises on some character of the board
RankSumRaises(board_part) ==
    \E i \in 1..Len(board_part) :
        /\ board_part[i] # "/"
        /\ IsDigit(board_part[i])
        /\ IntRaises(board_part[i])

Returned(errors) == [raised |-> FALSE, valid |-> Len(errors) = 0, errors |-> errors]

Raised == [raised |-> TRUE, valid |-> FALSE, errors |-> <<>>]

validate_fen(f) ==
    LET board_part == BoardPart(f)
        ranks == Split(board_part, "/")
    IN IF RankSumRaises(board_part) THEN Raised
       ELSE Returned(RankCountErrors(ranks)
                     \o InvalidCharErrors(board_part)
                     \o RankSumErrors(ranks, 0)
                     \o KingErrors(board_part)
                     \o PawnErrors(board_part))

NoValidation == [raised |-> FALSE, valid |-> FALSE, errors |-> <<>>]


----------------------------------------------------------------------------
(* board_geometry.py: order_corners.  A point is <<x, y>>; indices are      *)
(* 0-based as in the code, so element i of an array a is a[i + 1].          *)

PointSum(p) == p[1] + p[2]      \* x + y

PointDiff(p) == p[1] - p[2]     \* x - y

RaisedQuad == [raised |-> TRUE, points |-> <<>>]

\* variant: the first four points are taken, as corners[:4] would
ReshapeFirstFour(c) ==
    IF Len(c) < 4 THEN RaisedQuad
    ELSE [raised |-> FALSE, points |-> SubSeq(c, 1, 4)]

\* corners.reshape(4, 2): ValueError unless the array holds 8 numbers
Reshape(c) ==
    IF 2 * Len(c) # 4 * 2 THEN RaisedQuad
    ELSE [raised |-> FALSE, points |-> c]

\* np.argmin: the first index holding the minimum
ArgMin(v) ==
    CHOOSE i \in 0..(Len(v) - 1) :
        /\ \A j \in 0..(Len(v) - 1) : v[i + 1] <= v[j + 1]
        /\ \A j \in 0..(i - 1) : v[j + 1] > v[i + 1]

\* np.argmax: the first index holding the maximum
ArgMax(v) ==
    CHOOSE i \in 0..(Len(v) - 1) :
        /\ \A j \in 0..(Len(v) - 1) : v[i + 1] >= v[j + 1]
        /\ \A j \in 0..(i - 1) : v[j + 1] < v[i + 1]

\* [i for i in range(4) if i not in (tl_idx, br_idx)]
Remaining(tl_idx, br_idx) ==
    SelectSeq(<<0, 1, 2, 3>>, LAMBDA i : i \notin {tl_idx, br_idx})

\* variant: the remaining two are taken in input order, x - y not compared
CornerIndicesUnsorted(c) ==
    LET sums == [i \in 1..4 |-> PointSum(c[i])]
        tl_idx == ArgMin(sums)
        br_idx == ArgMax(sums)
        remaining == Remaining(tl_idx, br_idx)
    IN <<tl_idx, remaining[1], br_idx, remaining[2]>>

\* variant: x - y compared with >= instead of >
CornerIndicesTieFirst(c) ==
    LET sums == [i \in 1..4 |-> PointSum(c[i])]
        tl_idx == ArgMin(sums)
        br_idx == ArgMax(sums)
        remaining == Remaining(tl_idx, br_idx)
        diffs == [k \in 1..Len(remaining) |-> PointDiff(c[remaining[k] + 1])]
    IN IF diffs[1] >= diffs[2]
       THEN <<tl_idx, remaining[1], br_idx, remaining[2]>>
       ELSE <<tl_idx, remaining[2], br_idx, remaining[1]>>

\* <<tl_idx, tr_idx, br_idx, bl_idx>> of a (4, 2) array
CornerIndices(c) ==
    LET sums == [i \in 1..4 |-> PointSum(c[i])]
        tl_idx == ArgMin(sums)
        br_idx == ArgMax(sums)
        remaining == Remaining(tl_idx, br_idx)
        diffs == [k \in 1..Len(remaining) |-> PointDiff(c[remaining[k] + 1])]
    IN IF diffs[1] > diffs[2]
       THEN <<tl_idx, remaining[1], br_idx, remaining[2]>>
       ELSE <<tl_idx, remaining[2], br_idx, remaining[1]>>

order_corners(c) ==
    LET r == Reshape(c) IN
    IF r.raised THEN RaisedQuad
    ELSE LET idx == CornerIndices(r.points) IN
         [raised |-> FALSE, points |-> [k \in 1..4 |-> r.points[idx[k] + 1]]]

----------------------------------------------------------------------------
(* board_geometry.py: map_pieces_to_squares.  A detection is a record       *)
(* [class_name, bbox, confidence] with bbox = <<x1, y1, x2, y2>>.           *)
(* Coordinates are exact rationals: a centre is kept doubled (2*cx, 2*cy),  *)
(* a warped coordinate as numerator and denominator.  The transform is a    *)
(* 3 x 3 integer matrix; a homography is defined up to a scale factor, so   *)
(* integer entries stand for any rational transform.  Confidences are       *)
(* integers in tenths.                                                      *)

\* int(a / b): truncation toward zero
TruncDiv(a, b) ==
    LET abs_a == IF a < 0 THEN -a ELSE a
        abs_b == IF b < 0 THEN -b ELSE b
        q == abs_a \div abs_b
    IN IF (a < 0) = (b < 0) THEN q ELSE -q

\* cv2.perspectiveTransform on the point (x2/2, y2/2): <<num_x, num_y, den>>
\* with wx = num_x / den and wy = num_y / den; a vanishing denominator
\* gives the point (0, 0)
PerspectiveTransform(x2, y2, M) ==
    LET w == M[3][1] * x2 + M[3][2] * y2 + 2 * M[3][3] IN
    IF w = 0 THEN <<0, 0, 1>>
    ELSE <<M[1][1] * x2 + M[1][2] * y2 + 2 * M[1][3],
           M[2][1] * x2 + M[2][2] * y2 + 2 * M[2][3],
           w>>

\* the warped centre of a detection: <<num_x, num_y, den>>
WarpedCentre(det, bbox, M) ==
    LET cx2 == det.bbox[1] + det.bbox[3]       \* 2 * cx
        cy2 == det.bbox[2] + det.bbox[4]       \* 2 * cy
        cx_rel2 == cx2 - 2 * bbox[1]
        cy_rel2 == cy2 - 2 * bbox[2]
    IN PerspectiveTransform(cx_rel2, cy_rel2, M)

Min2(a, b) == IF a < b THEN a ELSE b

Max2(a, b) == IF a > b THEN a ELSE b

\* min(max(int(w / 80), 0), 7) for w = num / den
GridIndex(num, den) == Min2(Max2(TruncDiv(num, 80 * den), 0), 7)

\* variant: rank counted from the top row upward
SquareAtFlipped(col, row) == <<FileChars[col + 1], DigitStr(row + 1)>>

\* variant: rank computed as 9 - row
SquareAtOffByOne(col, row) == <<FileChars[col + 1], DigitStr(9 - row)>>

\* "abcdefgh"[col] + str(8 - row)
SquareAt(col, row) == <<FileChars[col + 1], DigitStr(8 - row)>>

LandingSquare(det, bbox, M) ==
    LET w == WarpedCentre(det, bbox, M) IN
    SquareAt(GridIndex(w[1], w[3]), GridIndex(w[2], w[3]))

\* variant: a detection of equal confidence also replaces the occupant
ReplacesOnTie(sq_map, sq_conf, square, conf) ==
    square \notin DOMAIN sq_map \/ conf >= sq_conf[square]

\* variant: every detection replaces the occupant of its square
ReplacesAlways(sq_map, sq_conf, square, conf) == TRUE

\* square not in square_map or conf > square_conf[square]
Replaces(sq_map, sq_conf, square, conf) ==
    square \notin DOMAIN sq_map \/ conf > sq_conf[square]

Put(f, k, v) == [x \in DOMAIN f \cup {k} |-> IF x = k THEN v ELSE f[x]]

RECURSIVE MapLoop(_, _, _, _, _)
\* the loop over piece_detections; returns square_map
MapLoop(dets, bbox, M, sq_map, sq_conf) ==
    IF dets = <<>> THEN sq_map
    ELSE LET det == Head(dets)
             square == LandingSquare(det, bbox, M)
             conf == det.confidence
         IN IF Replaces(sq_map, sq_conf, square, conf)
            THEN MapLoop(Tail(dets), bbox, M,
                         Put(sq_map, square, det.class_name),
                         Put(sq_conf, square, conf))
            ELSE MapLoop(Tail(dets), bbox, M, sq_map, sq_conf)

map_pieces_to_squares(dets, bbox, M) == MapLoop(dets, bbox, M, EmptyMap, EmptyMap)

\* the value of the local `square` in each iteration of the loop
LandingSquares(dets, bbox, M) ==
    [i \in 1..Len(dets) |-> LandingSquare(dets[i], bbox, M)]

----------------------------------------------------------------------------
(* board_geometry.py: perspective_correction.  An image is known by its     *)
(* size [w, h]; what cv2 finds in its pixels (the contours, the polygon     *)
(* approximation of the largest one) is a record [found, approx] chosen     *)
(* where the call is made.                                                  *)

\* a slice bound as Python normalises it for a sequence of length n
SliceBound(i, n) == IF i < 0 THEN Max2(i + n, 0) ELSE Min2(i, n)

\* len(range(n)[start:stop])
SliceLen(start, stop, n) == Max2(SliceBound(stop, n) - SliceBound(start, n), 0)

\* image[y1:y2, x1:x2].copy()
Crop(img, bbox) ==
    [w |-> SliceLen(bbox[1], bbox[3], img.w),
     h |-> SliceLen(bbox[2], bbox[4], img.h)]

\* cv2.cvtColor raises cv2.error on an image without pixels
CvtColorRaises(crop) == crop.w = 0 \/ crop.h = 0

\* variant: any approximation of four or more vertices is taken
UsesApproxAtLeastFour(cnt) == cnt.found /\ Len(cnt.approx) >= 4

\* `if contours:` ... `if len(approx) == 4:`
UsesApprox(cnt) == cnt.found /\ Len(cnt.approx) = 4

\* the four corners of the crop itself
FallbackCorners(crop) ==
    <<<<0, 0>>, <<crop.w - 1, 0>>, <<crop.w - 1, crop.h - 1>>, <<0, crop.h - 1>>>>

\* src_corners before ordering
SourceCorners(cnt, crop) ==
    IF UsesApprox(cnt) THEN cnt.approx ELSE FallbackCorners(crop)

dst_corners == <<<<0, 0>>, <<639, 0>>, <<639, 639>>, <<0, 639>>>>

Abs(a) == IF a < 0 THEN -a ELSE a

RECURSIVE Gcd(_, _)
Gcd(a, b) == IF b = 0 THEN a ELSE Gcd(b, a % b)

\* a homography is defined up to scale: the entries without their common factor
Normalise(A) ==
    LET g == Gcd(Gcd(Gcd(Gcd(Abs(A[1][1]), Abs(A[1][2])), Gcd(Abs(A[1][3]), Abs(A[2][1]))),
                     Gcd(Gcd(Abs(A[2][2]), Abs(A[2][3])), Gcd(Abs(A[3][1]), Abs(A[3][2])))),
                 Abs(A[3][3]))
    IN IF g = 0 THEN A ELSE [r \in 1..3 |-> [c \in 1..3 |-> A[r][c] \div g]]

\* the projective map taking (0,0), (1,0), (1,1), (0,1) to the points of q
SquareToQuad(q) ==
    LET dx1 == q[2][1] - q[3][1]
        dx2 == q[4][1] - q[3][1]
        dy1 == q[2][2] - q[3][2]
        dy2 == q[4][2] - q[3][2]
        sx == q[1][1] - q[2][1] + q[3][1] - q[4][1]
        sy == q[1][2] - q[2][2] + q[3][2] - q[4][2]
        den == dx1 * dy2 - dx2 * dy1
        g == sx * dy2 - dx2 * sy
        h == dx1 * sy - sx * dy1
    IN Normalise(
        <<<<den * (q[2][1] - q[1][1]) + g * q[2][1],
            den * (q[4][1] - q[1][1]) + h * q[4][1],
            den * q[1][1]>>,
          <<den * (q[2][2] - q[1][2]) + g * q[2][2],
            den * (q[4][2] - q[1][2]) + h * q[4][2],
            den * q[1][2]>>,
          <<g, h, den>>>>)

\* the inverse of a 3 x 3 matrix, up to scale
Adjugate(A) ==
    <<<<A[2][2] * A[3][3] - A[2][3] * A[3][2],
        A[1][3] * A[3][2] - A[1][2] * A[3][3],
        A[1][2] * A[2][3] - A[1][3] * A[2][2]>>,
      <<A[2][3] * A[3][1] - A[2][1] * A[3][3],
        A[1][1] * A[3][3] - A[1][3] * A[3][1],
        A[1][3] * A[2][1] - A[1][1] * A[2][3]>>,
      <<A[2][1] * A[3][2] - A[2][2] * A[3][1],
        A[1][2] * A[3][1] - A[1][1] * A[3][2],
        A[1][1] * A[2][2] - A[1][2] * A[2][1]>>>>

MatMul(A, B) ==
    [r \in 1..3 |-> [c \in 1..3 |->
        A[r][1] * B[1][c] + A[r][2] * B[2][c] + A[r][3] * B[3][c]]]

Collinear(p, q, r) ==
    (q[1] - p[1]) * (r[2] - p[2]) = (q[2] - p[2]) * (r[1] - p[1])

\* some three of the four points lie on one line: no transform takes
\* them to the corners of a square
Degenerate(q) ==
    \E i, j, k \in 1..4 : i < j /\ j < k /\ Collinear(q[i], q[j], q[k])

\* what the solver leaves for a singular system: zeros, then M[2][2] = 1
SingularMatrix == <<<<0, 0, 0>>, <<0, 0, 0>>, <<0, 0, 1>>>>

\* cv2.getPerspectiveTransform(src, dst)
GetPerspectiveTransform(src, dst) ==
    IF Degenerate(src) THEN SingularMatrix
    ELSE Normalise(MatMul(SquareToQuad(dst), Normalise(Adjugate(SquareToQuad(src)))))

RaisedCorrection ==
    [raised |-> TRUE, src_corners |-> <<>>, ordered |-> RaisedQuad, M |-> <<>>]

\* the call perspective_correction(board_crop), given what cv2 finds in the crop
perspective_correction(crop, cnt) ==
    IF CvtColorRaises(crop) THEN RaisedCorrection
    ELSE LET src == SourceCorners(cnt, crop)
             ordered == order_corners(src)
         IN IF ordered.raised THEN RaisedCorrection
            ELSE [raised |-> FALSE,
                  src_corners |-> src,
                  ordered |-> ordered,
                  M |-> GetPerspectiveTransform(ordered.points, dst_corners)]

----------------------------------------------------------------------------
(* detector.py: full_pipeline.                                              *)

\* the absent value
None == <<"None">>

NoBoardFound ==
    <<"N", "o", " ", "b", "o", "a", "r", "d", " ", "f", "o", "u", "n", "d">>

\* variant: the result for a frame without a board carries no error
NoBoardResultSilent ==
    [fen |-> None, board_detected |-> FALSE, pieces |-> <<>>, errors |-> <<>>]

\* the record returned when detect_board reports no board
NoBoardResult ==
    [fen |-> None, board_detected |-> FALSE, pieces |-> <<>>,
     errors |-> <<NoBoardFound>>]

\* variant: the confidence kept for a square is that of the last detection on it
KeepsConfidenceLast(sq_conf, sq, conf) == TRUE

\* sq not in square_confidence or det["confidence"] > square_confidence[sq]
KeepsConfidence(sq_conf, sq, conf) ==
    sq \notin DOMAIN sq_conf \/ conf > sq_conf[sq]

RECURSIVE ConfidenceLoop(_, _, _, _)
\* the loop that rebuilds square_confidence from the detections
ConfidenceLoop(dets, bbox, M, sq_conf) ==
    IF dets = <<>> THEN sq_conf
    ELSE LET det == Head(dets)
             sq == LandingSquare(det, bbox, M)
         IN IF KeepsConfidence(sq_conf, sq, det.confidence)
            THEN ConfidenceLoop(Tail(dets), bbox, M, Put(sq_conf, sq, det.confidence))
            ELSE ConfidenceLoop(Tail(dets), bbox, M, sq_conf)

square_confidence(dets, bbox, M) == ConfidenceLoop(dets, bbox, M, EmptyMap)

RECURSIVE KeyOrder(_, _)
\* the keys of square_map in insertion order: each square where a detection
\* first landed
KeyOrder(squares, seen) ==
    IF squares = <<>> THEN <<>>
    ELSE IF Head(squares) \in seen THEN KeyOrder(Tail(squares), seen)
         ELSE <<Head(squares)>> \o KeyOrder(Tail(squares), seen \cup {Head(squares)})

\* round(x, 4) for x = c / 10: the value in units of 0.0001, back in tenths
Round4(c) == (c * 1000) \div 1000

\* square_confidence.get(sq_name, 0.0)
ConfidenceOf(sq_conf, sq_name) ==
    IF sq_name \in DOMAIN sq_conf THEN sq_conf[sq_name] ELSE 0

\* the list comprehension over square_map.items()
PiecesList(sq_map, sq_conf, keys) ==
    [i \in 1..Len(keys) |->
        [piece |-> sq_map[keys[i]],
         square |-> keys[i],
         confidence |-> Round4(ConfidenceOf(sq_conf, keys[i]))]]

\* errors: empty, extended by the validator's list when the notation is not valid
PipelineErrors(v) == IF ~v.valid THEN <<>> \o v.errors ELSE <<>>

----------------------------------------------------------------------------
(* Inputs of the FEN code.                                                  *)

MaxExtra == 2      \* pieces placed on top of a base position
MaxFill == 8       \* leading "8" groups of a hand-written board field
MaxTail == 2       \* further groups of a hand-written board field

\* "unknown_3" is what detect_pieces emits for a class id the model has no name for
InputLabels == ValidLabels \cup {"unknown_3"}

PawnRank(rank_num, label) == [s \in {SquareName(f, rank_num) : f \in 0..7} |-> label]

Overlay(base, extra) ==
    [s \in DOMAIN base \cup DOMAIN extra |->
        IF s \in DOMAIN extra THEN extra[s] ELSE base[s]]

BaseMaps ==
    {EmptyMap,
     PawnRank(2, "white_pawn"),
     PawnRank(7, "black_pawn"),
     Overlay(PawnRank(2, "white_pawn"), PawnRank(7, "black_pawn"))}

ExtraSquares == {<<"e", "1">>, <<"e", "8">>, <<"a", "2">>, <<"d", "5">>}

ExtraMaps ==
    UNION {[D -> InputLabels] :
             D \in {S \in SUBSET ExtraSquares : Cardinality(S) <= MaxExtra}}

InputMaps == {Overlay(b, e) : b \in BaseMaps, e \in ExtraMaps}

RichGroups ==
    {<<"4", "k", "3">>,
     <<"4", "K", "3">>,
     <<"P", "P", "P", "P", "P", "P", "P", "P">>,
     <<"P", "7">>,
     <<"p", "p", "p", "p", "p", "p", "p", "p">>,
     <<"p", "7">>,
     <<"7">>,
     <<"x", "7">>,
     <<"9">>,
     <<"K", "k", "0", "6">>,
     <<"^2", "6">>,
     <<>>}

InputAux == {<<>>, AuxFields, <<" ", "K", "^2", "/", "x">>}

InputBoards ==
    {Join([i \in 1..k |-> <<"8">>] \o t, "/") :
        k \in 0..MaxFill, t \in UNION {[1..n -> RichGroups] : n \in 0..MaxTail}}

InputStrings == {b \o a : b \in InputBoards, a \in InputAux}

----------------------------------------------------------------------------
(* Runs of the FEN code.                                                    *)

Idle ==
    /\ corners = <<>>
    /\ quad = <<>>
    /\ piece_detections = <<>>
    /\ board_bbox = <<>>
    /\ warp_matrix = <<>>
    /\ landed = <<>>

\* no frame is in the pipeline
NoPipeline ==
    /\ image = <<>>
    /\ board_info = <<>>
    /\ board_crop = <<>>
    /\ contour = <<>>
    /\ executed = <<>>
    /\ pieces_list = <<>>
    /\ result = <<>>

\* no concurrent invocation
NoThreads ==
    /\ calls = <<>>
    /\ frames = <<>>
    /\ threads = <<>>

\* a caller holds an occupancy map
Init ==
    /\ pc = "map"
    /\ square_map \in InputMaps
    /\ fen = <<>>
    /\ validation = NoValidation
    /\ Idle
    /\ NoPipeline
    /\ NoThreads

\* a caller holds a notation string of any origin
InitValidate ==
    /\ pc = "string"
    /\ square_map = EmptyMap
    /\ fen \in InputStrings
    /\ validation = NoValidation
    /\ Idle
    /\ NoPipeline
    /\ NoThreads

GenerateFen ==
    /\ pc = "map"
    /\ fen' = generate_fen(square_map)
    /\ pc' = "generated"
    /\ UNCHANGED <<square_map, validation, corners, quad,
                   piece_detections, board_bbox, warp_matrix, landed,
                   pipelineVars, threadVars>>

ValidateFen ==
    /\ pc \in {"generated", "string"}
    /\ validation' = validate_fen(fen)
    /\ pc' = "validated"
    /\ UNCHANGED <<square_map, fen, corners, quad,
                   piece_detections, board_bbox, warp_matrix, landed,
                   pipelineVars, threadVars>>

Next == GenerateFen \/ ValidateFen

Spec == Init /\ [][Next]_vars

NextValidate == ValidateFen

SpecValidate == InitValidate /\ [][NextValidate]_vars

----------------------------------------------------------------------------
(* Runs of order_corners and map_pieces_to_squares.                         *)

MaxPoints == 5     \* longest point array of a wrong length
MaxDets == 3       \* longest detection list

\* the axis-aligned square, four points on one anti-diagonal, a diamond
CornerPoints ==
    {<<0, 0>>, <<100, 0>>, <<100, 100>>, <<0, 100>>,
     <<0, 3>>, <<1, 2>>, <<2, 1>>, <<3, 0>>,
     <<1, 0>>, <<0, 1>>}

InputCorners ==
    [1..4 -> CornerPoints]
    \cup UNION {[1..n -> {<<0, 0>>, <<100, 100>>}] : n \in (0..MaxPoints) \ {4}}

InitCorners ==
    /\ pc = "points"
    /\ corners \in InputCorners
    /\ quad = <<>>
    /\ square_map = EmptyMap
    /\ fen = <<>>
    /\ validation = NoValidation
    /\ piece_detections = <<>>
    /\ board_bbox = <<>>
    /\ warp_matrix = <<>>
    /\ landed = <<>>
    /\ NoPipeline
    /\ NoThreads

OrderCorners ==
    /\ pc = "points"
    /\ quad' = order_corners(corners)
    /\ pc' = "ordered"
    /\ UNCHANGED <<square_map, fen, validation, corners,
                   piece_detections, board_bbox, warp_matrix, landed,
                   pipelineVars, threadVars>>

NextCorners == OrderCorners

SpecCorners == InitCorners /\ [][NextCorners]_vars

InputBoxes ==
    {<<90, 90, 110, 110>>,      \* centre (100, 100)
     <<729, 729, 749, 749>>,    \* centre (739, 739)
     <<410, 410, 430, 430>>,    \* centre (420, 420)
     <<50, 400, 71, 441>>,      \* centre (60.5, 420.5)
     <<0, 890, 20, 910>>}       \* centre (10, 900)

InputDetections ==
    {[class_name |-> c[1], bbox |-> b, confidence |-> c[2]] :
        b \in InputBoxes,
        c \in {<<"white_king", 9>>, <<"black_pawn", 6>>,
               <<"white_king", 7>>, <<"black_pawn", 7>>}}

InputBoardBoxes == {<<0, 0, 640, 640>>, <<100, 100, 740, 740>>}

\* wx = 640 x / (x + 640), wy = 640 y / (x + 640)
TiltedMatrix == <<<<640, 0, 0>>, <<0, 640, 0>>, <<1, 0, 640>>>>

IdentityMatrix == <<<<1, 0, 0>>, <<0, 1, 0>>, <<0, 0, 1>>>>

\* the frames: a board box with the transform computed for its crop
InputFrames ==
    {<<b, IdentityMatrix>> : b \in InputBoardBoxes}
    \cup {<<<<100, 100, 740, 740>>, TiltedMatrix>>}

InitMap ==
    /\ pc = "detections"
    /\ piece_detections \in UNION {[1..n -> InputDetections] : n \in 0..MaxDets}
    /\ \E fr \in InputFrames : board_bbox = fr[1] /\ warp_matrix = fr[2]
    /\ square_map = EmptyMap
    /\ landed = <<>>
    /\ fen = <<>>
    /\ validation = NoValidation
    /\ corners = <<>>
    /\ quad = <<>>
    /\ NoPipeline
    /\ NoThreads

MapPieces ==
    /\ pc = "detections"
    /\ square_map' = map_pieces_to_squares(piece_detections, board_bbox, warp_matrix)
    /\ landed' = LandingSquares(piece_detections, board_bbox, warp_matrix)
    /\ pc' = "mapped"
    /\ UNCHANGED <<fen, validation, corners, quad,
                   piece_detections, board_bbox, warp_matrix,
                   pipelineVars, threadVars>>

NextMap == MapPieces

SpecMap == InitMap /\ [][NextMap]_vars

MaxList == 3       \* longest detection list whose orders are compared

\* detections on two boxes, with the labels and confidences of InputDetections
OrderDetections ==
    {d \in InputDetections : d.bbox \in {<<90, 90, 110, 110>>, <<410, 410, 430, 430>>}}

\* a caller holds a detection list in some order
InitOrder ==
    /\ pc = "detections"
    /\ piece_detections \in UNION {[1..n -> OrderDetections] : n \in 0..MaxList}
    /\ \E fr \in InputFrames : board_bbox = fr[1] /\ warp_matrix = fr[2]
    /\ square_map = EmptyMap
    /\ landed = <<>>
    /\ fen = <<>>
    /\ validation = NoValidation
    /\ corners = <<>>
    /\ quad = <<>>
    /\ NoPipeline
    /\ NoThreads

NextOrder == MapPieces

SpecOrder == InitOrder /\ [][NextOrder]_vars

----------------------------------------------------------------------------
(* Runs of full_pipeline on one frame.  The two detection models and the    *)
(* contour search are outside the core: what each returns is chosen at the  *)
(* step that calls it.                                                      *)

MaxPieces == 2     \* detections returned by detect_pieces

InputImages == {[w |-> 200, h |-> 200], [w |-> 105, h |-> 200]}

\* what detect_board may return; the confidence entry is not read
BoardInfos ==
    {[detected |-> FALSE, bbox |-> None]}
    \cup {[detected |-> TRUE, bbox |-> b] :
            b \in {<<100, 100, 108, 108>>,     \* 8 x 8 crop (5 x 8 at the image edge)
                   <<100, 100, 101, 108>>,     \* 1 x 8 crop
                   <<5, 5, 5, 9>>,             \* x1 = x2
                   <<30, 20, 10, 40>>}}        \* x1 > x2

Contours ==
    {[found |-> FALSE, approx |-> <<>>],
     [found |-> TRUE, approx |-> <<<<0, 0>>, <<4, 0>>, <<0, 7>>>>],
     [found |-> TRUE, approx |-> <<<<4, 7>>, <<0, 7>>, <<0, 0>>, <<4, 0>>>>],
     [found |-> TRUE, approx |-> <<<<5, 0>>, <<7, 7>>, <<0, 7>>, <<1, 0>>>>],
     [found |-> TRUE, approx |-> <<<<0, 0>>, <<3, 0>>, <<4, 4>>, <<2, 7>>, <<0, 7>>>>],
     [found |-> TRUE, approx |-> <<<<0, 0>>, <<0, 7>>>>]}

\* the contours that fit in the crop
ContoursIn(crop) ==
    {c \in Contours :
        \A i \in 1..Len(c.approx) :
            c.approx[i][1] < crop.w /\ c.approx[i][2] < crop.h}

PipelineDetections ==
    {[class_name |-> "white_king", bbox |-> <<103, 103, 104, 104>>, confidence |-> 9],
     [class_name |-> "black_pawn", bbox |-> <<103, 103, 104, 104>>, confidence |-> 6],
     [class_name |-> "black_king", bbox |-> <<100, 107, 101, 108>>, confidence |-> 7],
     [class_name |-> "unknown_3",  bbox |-> <<100, 107, 101, 108>>, confidence |-> 7]}

InitPipeline ==
    /\ pc = "frame"
    /\ image \in InputImages
    /\ board_info = <<>>
    /\ board_crop = <<>>
    /\ contour = <<>>
    /\ executed = <<>>
    /\ pieces_list = <<>>
    /\ result = <<>>
    /\ square_map = EmptyMap
    /\ fen = <<>>
    /\ validation = NoValidation
    /\ Idle
    /\ NoThreads

\* 1. board_info = self.detect_board(image)
DetectBoard ==
    /\ pc = "frame"
    /\ board_info' \in BoardInfos
    /\ executed' = Append(executed, "detect_board")
    /\ pc' = "board"
    /\ UNCHANGED <<square_map, fen, validation, corners, quad, piece_detections,
                   board_bbox, warp_matrix, landed, image, board_crop, contour,
                   pieces_list, result, threadVars>>

\* if not board_info["detected"]: return {...}
ReturnNoBoard ==
    /\ pc = "board"
    /\ ~board_info.detected
    /\ result' = NoBoardResult
    /\ pc' = "returned"
    /\ UNCHANGED <<square_map, fen, validation, corners, quad, piece_detections,
                   board_bbox, warp_matrix, landed, image, board_info, board_crop,
                   contour, executed, pieces_list, threadVars>>

\* 2. board_crop = image[y1:y2, x1:x2].copy()
CropBoard ==
    /\ pc = "board"
    /\ board_info.detected
    /\ board_bbox' = board_info.bbox
    /\ board_crop' = Crop(image, board_info.bbox)
    /\ executed' = Append(executed, "crop")
    /\ pc' = "cropped"
    /\ UNCHANGED <<square_map, fen, validation, corners, quad, piece_detections,
                   warp_matrix, landed, image, board_info, contour,
                   pieces_list, result, threadVars>>

\* 3. warped_image, warp_matrix = perspective_correction(board_crop);
\* an exception of the call leaves full_pipeline, which has no handler
PerspectiveCorrection ==
    /\ pc = "cropped"
    /\ executed' = Append(executed, "perspective_correction")
    /\ \E c \in IF CvtColorRaises(board_crop) THEN {<<>>} ELSE ContoursIn(board_crop) :
          LET r == perspective_correction(board_crop, c) IN
          /\ contour' = c
          /\ IF r.raised
             THEN /\ pc' = "raised"
                  /\ UNCHANGED <<corners, quad, warp_matrix>>
             ELSE /\ pc' = "warped"
                  /\ corners' = r.src_corners
                  /\ quad' = r.ordered
                  /\ warp_matrix' = r.M
    /\ UNCHANGED <<square_map, fen, validation, piece_detections, board_bbox,
                   landed, image, board_info, board_crop, pieces_list, result,
                   threadVars>>

\* 4. piece_detections = self.detect_pieces(image)
DetectPieces ==
    /\ pc = "warped"
    /\ piece_detections' \in UNION {[1..n -> PipelineDetections] : n \in 0..MaxPieces}
    /\ executed' = Append(executed, "detect_pieces")
    /\ pc' = "pieces"
    /\ UNCHANGED <<square_map, fen, validation, corners, quad, board_bbox,
                   warp_matrix, landed, image, board_info, board_crop, contour,
                   pieces_list, result, threadVars>>

\* 5. square_map = map_pieces_to_squares(piece_detections, board_bbox, warp_matrix)
MapToSquares ==
    /\ pc = "pieces"
    /\ square_map' = map_pieces_to_squares(piece_detections, board_bbox, warp_matrix)
    /\ landed' = LandingSquares(piece_detections, board_bbox, warp_matrix)
    /\ executed' = Append(executed, "map_pieces_to_squares")
    /\ pc' = "squares"
    /\ UNCHANGED <<fen, validation, corners, quad, piece_detections, board_bbox,
                   warp_matrix, image, board_info, board_crop, contour,
                   pieces_list, result, threadVars>>

\* square_confidence and pieces_list
BuildPiecesList ==
    /\ pc = "squares"
    /\ pieces_list' =
          PiecesList(square_map,
                     square_confidence(piece_detections, board_bbox, warp_matrix),
                     KeyOrder(LandingSquares(piece_detections, board_bbox, warp_matrix), {}))
    /\ pc' = "listed"
    /\ UNCHANGED <<square_map, fen, validation, corners, quad, piece_detections,
                   board_bbox, warp_matrix, landed, image, board_info, board_crop,
                   contour, executed, result, threadVars>>

\* 6. fen = generate_fen(square_map)
PipelineGenerateFen ==
    /\ pc = "listed"
    /\ fen' = generate_fen(square_map)
    /\ executed' = Append(executed, "generate_fen")
    /\ pc' = "notation"
    /\ UNCHANGED <<square_map, validation, corners, quad, piece_detections,
                   board_bbox, warp_matrix, landed, image, board_info, board_crop,
                   contour, pieces_list, result, threadVars>>

\* 7. validation = validate_fen(fen); errors; return {...}
PipelineValidateFen ==
    /\ pc = "notation"
    /\ LET v == validate_fen(fen) IN
       /\ validation' = v
       /\ IF v.raised
          THEN pc' = "raised" /\ UNCHANGED result
          ELSE /\ pc' = "returned"
               /\ result' = [fen |-> fen, board_detected |-> TRUE,
                             pieces |-> pieces_list, errors |-> PipelineErrors(v)]
    /\ executed' = Append(executed, "validate_fen")
    /\ UNCHANGED <<square_map, fen, corners, quad, piece_detections, board_bbox,
                   warp_matrix, landed, image, board_info, board_crop, contour,
                   pieces_list, threadVars>>

NextPipeline ==
    \/ DetectBoard
    \/ ReturnNoBoard
    \/ CropBoard
    \/ PerspectiveCorrection
    \/ DetectPieces
    \/ MapToSquares
    \/ BuildPiecesList
    \/ PipelineGenerateFen
    \/ PipelineValidateFen

SpecPipeline == InitPipeline /\ [][NextPipeline]_vars

----------------------------------------------------------------------------
(* Concurrent invocations.  Each thread makes one call of one of the four   *)
(* functions; the locals of a call live in its own frame, and the threads   *)
(* interleave between the iterations of the loops.  The argument objects    *)
(* (calls[t].args) may be the same for several threads.                     *)

NThreads == 2      \* concurrent invocations

Threads == 1..NThreads

\* variant: every invocation keeps its locals in one shared place
FrameShared(t) == 1

\* the locals of an invocation belong to that invocation
FrameOf(t) == t

KingsMap == (<<"e", "1">> :> "white_king") @@ (<<"e", "8">> :> "black_king")

ThreadCalls ==
    {[op |-> "order_corners", args |-> c] :
        c \in {<<<<100, 0>>, <<0, 0>>, <<0, 100>>, <<100, 100>>>>,
               <<<<0, 0>>, <<100, 100>>>>}}
    \cup {[op |-> "map_pieces_to_squares",
           args |-> [dets |-> d, bbox |-> <<100, 100, 740, 740>>, M |-> TiltedMatrix]] :
        d \in {<<[class_name |-> "white_king", bbox |-> <<410, 410, 430, 430>>, confidence |-> 7],
                 [class_name |-> "black_pawn", bbox |-> <<410, 410, 430, 430>>, confidence |-> 7]>>,
               <<[class_name |-> "black_pawn", bbox |-> <<90, 90, 110, 110>>, confidence |-> 6],
                 [class_name |-> "white_king", bbox |-> <<729, 729, 749, 749>>, confidence |-> 9]>>}}
    \cup {[op |-> "generate_fen", args |-> m] :
        m \in {KingsMap, PawnRank(2, "white_pawn")}}
    \cup {[op |-> "validate_fen", args |-> s] :
        s \in {generate_fen(KingsMap), <<"^2", "6">>}}

\* the locals of a call at its entry
NewFrame(call) ==
    [op |-> call.op, args |-> call.args, i |-> 0,
     acc |-> IF call.op = "map_pieces_to_squares" THEN EmptyMap ELSE <<>>,
     conf |-> EmptyMap, done |-> FALSE, ret |-> <<>>]

Return(f, value) == [f EXCEPT !.done = TRUE, !.ret = value]

\* order_corners: reshape; the four indices; the returned array
OrderCornersStep(f) ==
    IF f.i = 0
    THEN IF Reshape(f.args).raised THEN Return(f, RaisedQuad)
         ELSE [f EXCEPT !.i = 1, !.acc = CornerIndices(f.args)]
    ELSE Return(f, [raised |-> FALSE,
                    points |-> [k \in 1..4 |-> f.args[f.acc[k] + 1]]])

\* map_pieces_to_squares: one iteration of the loop over piece_detections
MapPiecesStep(f) ==
    IF f.i >= Len(f.args.dets) THEN Return(f, f.acc)
    ELSE LET det == f.args.dets[f.i + 1]
             square == LandingSquare(det, f.args.bbox, f.args.M)
         IN IF Replaces(f.acc, f.conf, square, det.confidence)
            THEN [f EXCEPT !.i = f.i + 1,
                           !.acc = Put(f.acc, square, det.class_name),
                           !.conf = Put(f.conf, square, det.confidence)]
            ELSE [f EXCEPT !.i = f.i + 1]

\* generate_fen: one iteration of the loop over rank_num = 8 .. 1
GenerateFenStep(f) ==
    IF f.i >= 8 THEN Return(f, Join(f.acc, "/") \o AuxFields)
    ELSE [f EXCEPT !.i = f.i + 1,
                   !.acc = Append(f.acc, RankString(f.args, 8 - f.i, 0, <<>>, 0))]

\* validate_fen: one of the five checks
ValidateFenStep(f) ==
    LET board_part == BoardPart(f.args)
        ranks == Split(board_part, "/")
    IN CASE f.i = 0 -> [f EXCEPT !.i = 1, !.acc = RankCountErrors(ranks)]
         [] f.i = 1 -> [f EXCEPT !.i = 2, !.acc = f.acc \o InvalidCharErrors(board_part)]
         [] f.i = 2 -> IF RankSumRaises(board_part) THEN Return(f, Raised)
                       ELSE [f EXCEPT !.i = 3, !.acc = f.acc \o RankSumErrors(ranks, 0)]
         [] f.i = 3 -> [f EXCEPT !.i = 4, !.acc = f.acc \o KingErrors(board_part)]
         [] f.i = 4 -> [f EXCEPT !.i = 5, !.acc = f.acc \o PawnErrors(board_part)]
         [] OTHER -> Return(f, Returned(f.acc))

InitThreads ==
    /\ pc = "threads"
    /\ calls \in [Threads -> ThreadCalls]
    /\ frames = [t \in Threads |-> <<>>]
    /\ threads = [t \in Threads |-> [status |-> "ready", result |-> <<>>]]
    /\ square_map = EmptyMap
    /\ fen = <<>>
    /\ validation = NoValidation
    /\ Idle
    /\ NoPipeline

Running(t, op) ==
    /\ threads[t].status = "running"
    /\ frames[FrameOf(t)].op = op
    /\ ~frames[FrameOf(t)].done

\* thread t enters its function
Call(t) ==
    /\ threads[t].status = "ready"
    /\ frames' = [frames EXCEPT ![FrameOf(t)] = NewFrame(calls[t])]
    /\ threads' = [threads EXCEPT ![t].status = "running"]
    /\ UNCHANGED <<coreVars, pipelineVars, calls>>

StepOrderCorners(t) ==
    /\ Running(t, "order_corners")
    /\ frames' = [frames EXCEPT ![FrameOf(t)] = OrderCornersStep(@)]
    /\ UNCHANGED <<coreVars, pipelineVars, calls, threads>>

StepMapPieces(t) ==
    /\ Running(t, "map_pieces_to_squares")
    /\ frames' = [frames EXCEPT ![FrameOf(t)] = MapPiecesStep(@)]
    /\ UNCHANGED <<coreVars, pipelineVars, calls, threads>>

StepGenerateFen(t) ==
    /\ Running(t, "generate_fen")
    /\ frames' = [frames EXCEPT ![FrameOf(t)] = GenerateFenStep(@)]
    /\ UNCHANGED <<coreVars, pipelineVars, calls, threads>>

StepValidateFen(t) ==
    /\ Running(t, "validate_fen")
    /\ frames' = [frames EXCEPT ![FrameOf(t)] = ValidateFenStep(@)]
    /\ UNCHANGED <<coreVars, pipelineVars, calls, threads>>

\* thread t leaves its function with the value (or the exception) of its frame
ReturnFromCall(t) ==
    /\ threads[t].status = "running"
    /\ frames[FrameOf(t)].done
    /\ threads' = [threads EXCEPT ![t] = [status |-> "returned",
                                          result |-> frames[FrameOf(t)].ret]]
    /\ UNCHANGED <<coreVars, pipelineVars, calls, frames>>

NextThreads ==
    \E t \in Threads :
        \/ Call(t)
        \/ StepOrderCorners(t)
        \/ StepMapPieces(t)
        \/ StepGenerateFen(t)
        \/ StepValidateFen(t)
        \/ ReturnFromCall(t)

SpecThreads == InitThreads /\ [][NextThreads]_vars

----------------------------------------------------------------------------
(* Properties of generate_fen and validate_fen.                             *)

LabelCount(m, l) == Cardinality({s \in DOMAIN m : m[s] = l})

KindCount(errors, kind) == Cardinality({i \in 1..Len(errors) : errors[i].kind = kind})

NoViolations ==
    /\ ~validation.raised
    /\ validation.valid
    /\ validation.errors = <<>>

KingsAndPawnsInRange ==
    /\ LabelCount(square_map, "white_king") = 1
    /\ LabelCount(square_map, "black_king") = 1
    /\ LabelCount(square_map, "white_pawn") <= 8
    /\ LabelCount(square_map, "black_pawn") <= 8

\* C1: for an occupancy map over the 64 squares and the 12 valid labels,
\* validating the generated notation reports no violation exactly when the
\* map holds one white king, one black king and at most 8 pawns of each colour.
C1_RoundTrip ==
    (/\ pc = "validated"
     /\ DOMAIN square_map \subseteq Squares
     /\ Range(square_map) \subseteq ValidLabels)
    => (NoViolations <=> KingsAndPawnsInRange)

\* a full pawn rank plus both kings has been generated and validated as valid
C1_Witness ==
    /\ pc = "validated"
    /\ Range(square_map) \subseteq ValidLabels
    /\ LabelCount(square_map, "white_pawn") = 8
    /\ KingsAndPawnsInRange
    /\ NoViolations

\* the cells a rank descriptor stands for: a digit d is d empty cells
RECURSIVE Expand(_)
Expand(desc) ==
    IF desc = <<>> THEN <<>>
    ELSE (IF Head(desc) \in AsciiDigits
          THEN [i \in 1..IntOf(Head(desc)) |-> "."]
          ELSE <<Head(desc)>>)
         \o Expand(Tail(desc))

\* the cells of a rank of the map, file a to file h
RankCells(m, rank_num) ==
    [f \in 1..8 |->
        LET sq == <<FileChars[f], DigitStr(rank_num)>> IN
        IF sq \in DOMAIN m
        THEN (IF m[sq] \in ValidLabels THEN PIECE_TO_FEN[m[sq]] ELSE "?")
        ELSE "."]

\* every run of empty cells is written as one digit 1..8
RunsAreMaximal(desc) ==
    /\ \A i \in 1..Len(desc) : desc[i] \notin {"0", "9"}
    /\ \A i \in 1..(Len(desc) - 1) :
          ~(desc[i] \in AsciiDigits /\ desc[i + 1] \in AsciiDigits)

KingsOnly ==
    [s \in {<<"e", "1">>, <<"e", "8">>} |->
        IF s = <<"e", "1">> THEN "white_king" ELSE "black_king"]

EmptyBoardFen ==
    <<"8", "/", "8", "/", "8", "/", "8", "/", "8", "/", "8", "/", "8", "/", "8",
      " ", "w", " ", "K", "Q", "k", "q", " ", "-", " ", "0", " ", "1">>

\* C7: generate_fen returns '<board> w KQkq - 0 1', <board> being 8 rank
\* descriptors joined by '/', the i-th describing rank 8-i from file a to h
\* with one letter per piece ('?' for an unknown label) and one digit per
\* maximal run of empty squares; the empty map gives 8/8/8/8/8/8/8/8 and the
\* map {e1: white_king, e8: black_king} gives 4k3 first and 4K3 last.
C7_FenFormat ==
    pc \in {"generated", "validated"} =>
        LET tokens == Split(fen, " ")
            descs == Split(tokens[1], "/")
        IN /\ tokens = <<tokens[1], <<"w">>, <<"K", "Q", "k", "q">>,
                         <<"-">>, <<"0">>, <<"1">> >>
           /\ Len(descs) = 8
           /\ \A i \in 0..7 :
                 /\ Expand(descs[i + 1]) = RankCells(square_map, 8 - i)
                 /\ RunsAreMaximal(descs[i + 1])
           /\ (square_map = EmptyMap => fen = EmptyBoardFen)
           /\ (square_map = KingsOnly =>
                 /\ descs[1] = <<"4", "k", "3">>
                 /\ descs[8] = <<"4", "K", "3">>)

\* the two-king map has been serialised
C7_Witness ==
    /\ pc = "generated"
    /\ square_map = KingsOnly
    /\ Len(fen) > 0

\* the board field as the claims define it: the text before the first space
RECURSIVE FirstToken(_)
FirstToken(f) ==
    IF f = <<>> \/ Head(f) = " " THEN <<>> ELSE <<Head(f)>> \o FirstToken(Tail(f))

\* the '/'-separated groups of the board field
RECURSIVE Groups(_)
Groups(b) ==
    IF b = <<>> THEN << <<>> >>
    ELSE LET rest == Groups(Tail(b)) IN
         IF Head(b) = "/" THEN << <<>> >> \o rest
         ELSE << <<Head(b)>> \o rest[1] >> \o Tail(rest)

\* the square count of a group: a digit counts its value (2 for U+00B2),
\* any other character counts 1
RECURSIVE SquareCount(_)
SquareCount(g) ==
    IF g = <<>> THEN 0
    ELSE (CASE Head(g) \in AsciiDigits -> IntOf(Head(g))
            [] Head(g) = "^2" -> 2
            [] OTHER -> 1)
         + SquareCount(Tail(g))

IllegalChars(b) == {i \in 1..Len(b) : b[i] # "/" /\ b[i] \notin VALID_BOARD_CHARS}

WrongSumGroups(b) == {i \in 1..Len(Groups(b)) : SquareCount(Groups(b)[i]) # 8}

RankCountReported ==
    KindCount(validation.errors, "rank_count")
        = IF Len(Groups(FirstToken(fen))) # 8 THEN 1 ELSE 0

OtherDefectsReported ==
    LET b == FirstToken(fen)
        e == validation.errors
    IN /\ IllegalChars(b) # {} => KindCount(e, "invalid_char") > 0
       /\ WrongSumGroups(b) # {} => KindCount(e, "rank_sum") > 0
       /\ Count(b, "K") # 1 => KindCount(e, "white_king") = 1
       /\ Count(b, "k") # 1 => KindCount(e, "black_king") = 1
       /\ Count(b, "P") > 8 => KindCount(e, "white_pawn") = 1
       /\ Count(b, "p") > 8 => KindCount(e, "black_pawn") = 1

\* C8: validate_fen reports exactly one rank-count violation when the board
\* field does not split into exactly 8 groups and none when it does,
\* whatever other defects the string has, and still reports those defects.
C8_RankCount ==
    pc = "validated" =>
        /\ ~validation.raised
        /\ RankCountReported
        /\ OtherDefectsReported

RankSumsReported ==
    LET b == FirstToken(fen)
        e == validation.errors
    IN /\ KindCount(e, "rank_sum") = Cardinality(WrongSumGroups(b))
       /\ \A i \in 1..Len(Groups(b)) :
             (i \in WrongSumGroups(b))
             <=> (\E j \in 1..Len(e) :
                    /\ e[j].kind = "rank_sum"
                    /\ e[j].rank = 9 - i
                    /\ e[j].n = SquareCount(Groups(b)[i]))

\* C9: validate_fen reports one rank-sum violation for each group of the
\* board field whose square count differs from 8 and none for a group whose
\* count is 8, digits counting their value and other characters 1.
C9_RankSums ==
    pc = "validated" =>
        /\ ~validation.raised
        /\ RankSumsReported

KingsAndPawnsReported ==
    LET b == FirstToken(fen)
        e == validation.errors
    IN /\ KindCount(e, "white_king") = (IF Count(b, "K") # 1 THEN 1 ELSE 0)
       /\ KindCount(e, "black_king") = (IF Count(b, "k") # 1 THEN 1 ELSE 0)
       /\ KindCount(e, "white_pawn") = (IF Count(b, "P") > 8 THEN 1 ELSE 0)
       /\ KindCount(e, "black_pawn") = (IF Count(b, "p") > 8 THEN 1 ELSE 0)
       /\ \A j \in 1..Len(e) :
             /\ e[j].kind = "white_king" => e[j].n = Count(b, "K")
             /\ e[j].kind = "black_king" => e[j].n = Count(b, "k")
             /\ e[j].kind = "white_pawn" => e[j].n = Count(b, "P")
             /\ e[j].kind = "black_pawn" => e[j].n = Count(b, "p")

\* C10: validate_fen counts kings and pawns in the board field only: a
\* white-king violation iff the count of 'K' is not 1, a black-king violation
\* iff the count of 'k' is not 1, a pawn violation iff more than 8 'P' (or
\* 'p'); on '8/8/8/8/8/8/8/8 w KQkq - 0 1' exactly two violations, not valid.
C10_KingsAndPawns ==
    pc = "validated" =>
        /\ ~validation.raised
        /\ KingsAndPawnsReported
        /\ (fen = EmptyBoardFen =>
              /\ ~validation.valid
              /\ validation.errors = <<Err("white_king", "", 0, 0),
                                       Err("black_king", "", 0, 0)>>)

\* What C8, C9 and C10 state does hold of every call that returns.
ReturnedReportsAll ==
    (pc = "validated" /\ ~validation.raised) =>
        /\ RankCountReported
        /\ OtherDefectsReported
        /\ RankSumsReported
        /\ KingsAndPawnsReported
        /\ validation.valid = (validation.errors = <<>>)

----------------------------------------------------------------------------
(* Properties of map_pieces_to_squares.                                     *)

\* floor(num / den) of a rational
FloorDiv(num, den) == IF den > 0 THEN num \div den ELSE (-num) \div (-den)

Clamp07(v) == IF v < 0 THEN 0 ELSE IF v > 7 THEN 7 ELSE v

\* the square of the claim: file from floor(wx/80), rank 8 - floor(wy/80)
FloorSquare(w) ==
    <<FileChars[Clamp07(FloorDiv(w[1], 80 * w[3])) + 1],
      DigitStr(8 - Clamp07(FloorDiv(w[2], 80 * w[3])))>>

\* the warped centre is exactly the point (x, y)
WarpedAt(w, x, y) == w[1] = x * w[3] /\ w[2] = y * w[3]

\* C2: every normalized coordinate (wx, wy), negative and beyond 640
\* included, lands on the square with file 'abcdefgh'[clamp(floor(wx/80))]
\* and rank 8 - clamp(floor(wy/80)): truncation toward zero and floor agree
\* after clamping; (0,0) is a8, (639,639) is h1, (320,320) is e4.
C2_GridSquare ==
    pc = "mapped" =>
        \A i \in 1..Len(piece_detections) :
            LET w == WarpedCentre(piece_detections[i], board_bbox, warp_matrix) IN
            /\ landed[i] = FloorSquare(w)
            /\ WarpedAt(w, 0, 0) => landed[i] = <<"a", "8">>
            /\ WarpedAt(w, 639, 639) => landed[i] = <<"h", "1">>
            /\ WarpedAt(w, 320, 320) => landed[i] = <<"e", "4">>

\* a mapped detection whose coordinate truncates and floors differently
C2_Witness ==
    /\ pc = "mapped"
    /\ \E i \in 1..Len(piece_detections) :
          LET w == WarpedCentre(piece_detections[i], board_bbox, warp_matrix) IN
          /\ TruncDiv(w[1], 80 * w[3]) # FloorDiv(w[1], 80 * w[3])
          /\ landed[i][1] = "a"

\* the detections that land on a square, by position in the input list
LandingOn(sq) == {i \in 1..Len(piece_detections) : landed[i] = sq}

\* the earliest of the detections on a square that have the highest confidence
EarliestBest(sq) ==
    CHOOSE i \in LandingOn(sq) :
        /\ \A j \in LandingOn(sq) :
              piece_detections[j].confidence <= piece_detections[i].confidence
        /\ \A j \in LandingOn(sq) :
              piece_detections[j].confidence = piece_detections[i].confidence
              => i <= j

\* C3: the label stored for an occupied square is that of the earliest
\* detection among those of maximum confidence landing on it: a later
\* detection wins only with strictly higher confidence.
C3_ConflictResolution ==
    pc = "mapped" =>
        \A sq \in DOMAIN square_map :
            /\ LandingOn(sq) # {}
            /\ square_map[sq] = piece_detections[EarliestBest(sq)].class_name

\* two detections of equal confidence and different labels share a square
C3_Witness ==
    /\ pc = "mapped"
    /\ \E i, j \in 1..Len(piece_detections) :
          /\ i < j
          /\ landed[i] = landed[j]
          /\ piece_detections[i].confidence = piece_detections[j].confidence
          /\ piece_detections[i].class_name # piece_detections[j].class_name

----------------------------------------------------------------------------
(* Properties of order_corners.                                             *)

Perms4 == {p \in [1..4 -> 1..4] : \A i, j \in 1..4 : p[i] = p[j] => i = j}

Permuted(c, p) == [i \in 1..4 |-> c[p[i]]]

Distinct(c) == \A i, j \in 1..Len(c) : c[i] = c[j] => i = j

MinSum(c) == CHOOSE m \in {PointSum(c[i]) : i \in 1..Len(c)} :
                \A i \in 1..Len(c) : m <= PointSum(c[i])

MaxSum(c) == CHOOSE m \in {PointSum(c[i]) : i \in 1..Len(c)} :
                \A i \in 1..Len(c) : m >= PointSum(c[i])

\* one point alone has the least x+y, one alone the greatest, and the other
\* two differ in x-y
TieFree(c) ==
    LET lo == {i \in 1..4 : PointSum(c[i]) = MinSum(c)}
        hi == {i \in 1..4 : PointSum(c[i]) = MaxSum(c)}
        rest == (1..4) \ (lo \cup hi)
    IN /\ Cardinality(lo) = 1
       /\ Cardinality(hi) = 1
       /\ \A i, j \in rest : PointDiff(c[i]) = PointDiff(c[j]) => i = j

\* C4 as stated: for 4 distinct points the ordered quad is the same for
\* every permutation of the input.
C4_PermutationInvariant ==
    (pc = "ordered" /\ Len(corners) = 4 /\ Distinct(corners)) =>
        \A p \in Perms4 : order_corners(Permuted(corners, p)) = quad

\* C4 amended: for 4 distinct points with a single minimum of x+y, a single
\* maximum of x+y and different x-y on the other two, the ordered quad is
\* the same for every permutation of the input.
C4_TieFreePermutationInvariant ==
    (pc = "ordered" /\ Len(corners) = 4 /\ Distinct(corners) /\ TieFree(corners)) =>
        \A p \in Perms4 : order_corners(Permuted(corners, p)) = quad

\* a tie-free input that the call had to reorder
C4_Witness ==
    /\ pc = "ordered"
    /\ Len(corners) = 4
    /\ Distinct(corners)
    /\ TieFree(corners)
    /\ ~quad.raised
    /\ quad.points # corners

Square100 == <<<<0, 0>>, <<100, 0>>, <<100, 100>>, <<0, 100>>>>

\* What C5 states does hold whenever the four x+y are not all equal.
OrderedQuadUnlessAllSumsEqual ==
    (pc = "ordered" /\ Len(corners) = 4 /\ MinSum(corners) # MaxSum(corners)) =>
        /\ ~quad.raised
        /\ PointSum(quad.points[1]) = MinSum(corners)
        /\ PointSum(quad.points[3]) = MaxSum(corners)
        /\ \E p \in Perms4 : quad.points = Permuted(corners, p)
        /\ PointDiff(quad.points[2]) >= PointDiff(quad.points[4])

\* C5: for any 4 points, element 0 has the minimum x+y, element 2 the
\* maximum x+y, elements 1 and 3 are the two inputs not chosen as element 0
\* or 2 with x-y of element 1 >= x-y of element 3; the square
\* [(0,0),(100,0),(100,100),(0,100)] is returned unchanged.
C5_OrderedQuad ==
    (pc = "ordered" /\ Len(corners) = 4) =>
        /\ ~quad.raised
        /\ PointSum(quad.points[1]) = MinSum(corners)
        /\ PointSum(quad.points[3]) = MaxSum(corners)
        /\ \E p \in Perms4 : quad.points = Permuted(corners, p)
        /\ PointDiff(quad.points[2]) >= PointDiff(quad.points[4])
        /\ (corners = Square100 => quad.points = Square100)

\* C6: order_corners raises whenever it is given fewer or more than 4
\* points and returns a quad for every 4 distinct points.
C6_PointCount ==
    pc = "ordered" =>
        /\ Len(corners) # 4 => quad.raised
        /\ (Len(corners) = 4 /\ Distinct(corners)) =>
              (~quad.raised /\ Len(quad.points) = 4)

\* a call with five points has raised
C6_Witness ==
    /\ pc = "ordered"
    /\ Len(corners) = 5
    /\ quad.raised

----------------------------------------------------------------------------
(* Further properties of validate_fen, order_corners, map_pieces_to_squares *)

\* C11: for any input string validate_fen returns a result and never
\* raises, and the returned validity flag is true exactly when the returned
\* violation list is empty.
C11_NeverRaises ==
    pc = "validated" =>
        /\ ~validation.raised
        /\ validation.valid <=> (validation.errors = <<>>)

InvalidCharsReported ==
    LET b == FirstToken(fen)
        e == validation.errors
    IN /\ KindCount(e, "invalid_char") = Cardinality(IllegalChars(b))
       /\ \A ch \in {b[i] : i \in 1..Len(b)} \cup {e[j].ch : j \in 1..Len(e)} :
             Cardinality({j \in 1..Len(e) : e[j].kind = "invalid_char" /\ e[j].ch = ch})
             = Cardinality({i \in IllegalChars(b) : b[i] = ch})

\* C18: validate_fen reports one invalid-character violation for each
\* occurrence in the board field of a character that is not one of the 12
\* piece letters, a digit 1-8 or '/', and none for a legal character.
C18_InvalidChars ==
    pc = "validated" =>
        /\ ~validation.raised
        /\ InvalidCharsReported

\* What C18 states does hold of every call that returns.
ReturnedReportsInvalidChars ==
    (pc = "validated" /\ ~validation.raised) => InvalidCharsReported

\* the earliest input position whose x+y is v
FirstWithSum(c, v) ==
    CHOOSE i \in 1..Len(c) :
        /\ PointSum(c[i]) = v
        /\ \A j \in 1..(i - 1) : PointSum(c[j]) # v

\* the input positions not chosen as top-left or bottom-right, in input order
RestPositions(c) ==
    SelectSeq(<<1, 2, 3, 4>>,
              LAMBDA i : i \notin {FirstWithSum(c, MinSum(c)), FirstWithSum(c, MaxSum(c))})

ExtremesAreFirstOccurrences ==
    /\ quad.points[1] = corners[FirstWithSum(corners, MinSum(corners))]
    /\ quad.points[3] = corners[FirstWithSum(corners, MaxSum(corners))]

\* C17 as stated: ties go to the first occurrence, also between the two
\* remaining points of equal x-y, the earlier of which is top-right.
C17_FirstOccurrence ==
    (pc = "ordered" /\ Len(corners) = 4) =>
        /\ ExtremesAreFirstOccurrences
        /\ LET rest == RestPositions(corners) IN
           (Len(rest) = 2
            /\ PointDiff(corners[rest[1]]) = PointDiff(corners[rest[2]]))
           => quad.points[2] = corners[rest[1]]

\* C17 amended: ties in x+y go to the first occurrence; when the first two
\* points chosen neither as top-left nor as bottom-right have equal x-y, the
\* later of the two is top-right and the earlier is bottom-left.
C17_TieOrder ==
    (pc = "ordered" /\ Len(corners) = 4) =>
        /\ ExtremesAreFirstOccurrences
        /\ LET rest == RestPositions(corners) IN
           PointDiff(corners[rest[1]]) = PointDiff(corners[rest[2]])
           => /\ quad.points[2] = corners[rest[2]]
              /\ quad.points[4] = corners[rest[1]]

\* two different remaining points of equal x-y have been ordered
C17_Witness ==
    /\ pc = "ordered"
    /\ Len(corners) = 4
    /\ LET rest == RestPositions(corners) IN
       /\ Len(rest) = 2
       /\ PointDiff(corners[rest[1]]) = PointDiff(corners[rest[2]])
       /\ corners[rest[1]] # corners[rest[2]]
       /\ quad.points[2] = corners[rest[2]]

\* C20: for 4 distinct points the returned quad is a rearrangement of the
\* input: every input point appears exactly once, none duplicated or dropped.
C20_Rearrangement ==
    (pc = "ordered" /\ Len(corners) = 4 /\ Distinct(corners)) =>
        /\ ~quad.raised
        /\ \E p \in Perms4 : quad.points = Permuted(corners, p)

\* What C20 states does hold whenever the four x+y are not all equal.
RearrangementUnlessAllSumsEqual ==
    (pc = "ordered" /\ Len(corners) = 4 /\ MinSum(corners) # MaxSum(corners)) =>
        \E p \in Perms4 : quad.points = Permuted(corners, p)

\* C15: every detection lands on one of the 64 squares; the keys of the
\* returned map are exactly the squares some detection lands on, at most
\* min(number of detections, 64) of them; no detections, empty map.
C15_Total ==
    pc = "mapped" =>
        /\ Len(landed) = Len(piece_detections)
        /\ \A i \in 1..Len(landed) : landed[i] \in Squares
        /\ DOMAIN square_map = Range(landed)
        /\ DOMAIN square_map \subseteq Squares
        /\ Cardinality(DOMAIN square_map) <= Min2(Len(piece_detections), 64)
        /\ (piece_detections = <<>> => square_map = EmptyMap)

\* three detections, two of them on one square, have been mapped
C15_Witness ==
    /\ pc = "mapped"
    /\ Len(piece_detections) = 3
    /\ Cardinality(DOMAIN square_map) = 2

----------------------------------------------------------------------------
(* Properties of perspective_correction and full_pipeline.                  *)

BoardFound == pc # "frame" /\ board_info.detected

BoardMissing == pc # "frame" /\ ~board_info.detected

\* C12: when detect_board reports no board, full_pipeline returns at once the
\* record (fen absent, board_detected false, no pieces, errors ['No board
\* found']), and the only step the run has executed is the board detection:
\* no crop, no perspective correction, no piece detection, no square mapping,
\* no FEN generation and no validation.
C12_NoBoard ==
    BoardMissing =>
        /\ pc \in {"board", "returned"}
        /\ executed = <<"detect_board">>
        /\ pc = "returned" =>
              /\ result = NoBoardResult
              /\ result.fen = None
              /\ ~result.board_detected
              /\ result.pieces = <<>>
              /\ result.errors = <<NoBoardFound>>
        /\ board_crop = <<>>
        /\ warp_matrix = <<>>
        /\ piece_detections = <<>>
        /\ square_map = EmptyMap
        /\ fen = <<>>
        /\ validation = NoValidation

C12_Witness == pc = "returned" /\ ~board_info.detected

Returned_Board == pc = "returned" /\ board_info.detected

\* C13 (as stated): with a board detected, the piece list holds, for each
\* input detection, the triple of its label, the square it lands on and its
\* own confidence.
C13_PerDetection ==
    Returned_Board =>
        \A i \in 1..Len(piece_detections) :
            \E j \in 1..Len(result.pieces) :
                result.pieces[j] =
                    [piece |-> piece_detections[i].class_name,
                     square |-> landed[i],
                     confidence |-> piece_detections[i].confidence]

\* the detections that land on square sq
LandingAt(sq) == {i \in 1..Len(piece_detections) : landed[i] = sq}

\* C13 (amended): with a board detected, the piece list holds exactly one
\* triple for each occupied square: the label the occupancy map keeps for
\* the square, the square, and the highest confidence among the detections
\* that land on it, which is the confidence of the detection whose label
\* is kept.
C13_PerSquare ==
    Returned_Board =>
        /\ Len(result.pieces) = Cardinality(DOMAIN square_map)
        /\ {result.pieces[j].square : j \in 1..Len(result.pieces)} = DOMAIN square_map
        /\ \A j \in 1..Len(result.pieces) :
              LET e == result.pieces[j] IN
              /\ e.piece = square_map[e.square]
              /\ \A i \in LandingAt(e.square) : piece_detections[i].confidence <= e.confidence
              /\ \E i \in LandingAt(e.square) :
                    /\ piece_detections[i].class_name = e.piece
                    /\ piece_detections[i].confidence = e.confidence

C13_Witness ==
    /\ Returned_Board
    /\ Len(piece_detections) = 2
    /\ Len(result.pieces) = 1
    /\ piece_detections[1].confidence # piece_detections[2].confidence

\* C14: for every board detection result and every detection list, a board
\* box with x1 >= x2 or y1 >= y2 included, full_pipeline returns a record and
\* propagates no exception; with a board detected the errors field is the
\* validator's list, empty when the notation is valid.
C14_NeverPropagates ==
    /\ pc # "raised"
    /\ Returned_Board =>
          /\ result.errors = validation.errors
          /\ validation.valid => result.errors = <<>>

\* whenever full_pipeline returns with a board, errors is the validator's list
ReturnedErrorsAreValidatorErrors ==
    Returned_Board =>
        /\ ~validation.raised
        /\ result.fen = fen
        /\ result.errors = validation.errors
        /\ validation.valid <=> (result.errors = <<>>)

\* full_pipeline fails only in perspective_correction, on a crop without pixels
RaisedOnlyOnEmptyCrop ==
    pc = "raised" =>
        /\ executed = <<"detect_board", "crop", "perspective_correction">>
        /\ (board_bbox[1] >= board_bbox[3] \/ board_bbox[2] >= board_bbox[4]
            \/ board_bbox[1] >= image.w \/ board_bbox[2] >= image.h)

\* perspective_correction has returned
Corrected ==
    \/ pc \in {"warped", "pieces", "squares", "listed", "notation"}
    \/ Returned_Board

\* M takes the point p to the point d
MapsTo(M, p, d) ==
    LET t == PerspectiveTransform(2 * p[1], 2 * p[2], M) IN
    /\ t[3] # 0
    /\ t[1] = d[1] * t[3]
    /\ t[2] = d[2] * t[3]

\* C19: on a crop of width >= 1 and height >= 1 perspective_correction does
\* not fail; its source quad is the approximation of the largest contour
\* exactly when a contour exists and the approximation has 4 vertices, and
\* the crop corners (0,0), (w-1,0), (w-1,h-1), (0,h-1) otherwise, which
\* ordering leaves as they are; the ordered quad is mapped to the
\* destination corners (0,0), (639,0), (639,639), (0,639).
C19_SourceQuad ==
    /\ (pc = "raised" /\ executed[Len(executed)] = "perspective_correction")
          => (board_crop.w < 1 \/ board_crop.h < 1)
    /\ Corrected =>
          /\ board_crop.w >= 1 /\ board_crop.h >= 1
          /\ (contour.found /\ Len(contour.approx) = 4) => corners = contour.approx
          /\ ~(contour.found /\ Len(contour.approx) = 4) =>
                /\ corners = <<<<0, 0>>, <<board_crop.w - 1, 0>>,
                               <<board_crop.w - 1, board_crop.h - 1>>,
                               <<0, board_crop.h - 1>>>>
                /\ quad.points = corners
          /\ ~quad.raised
          /\ dst_corners = <<<<0, 0>>, <<639, 0>>, <<639, 639>>, <<0, 639>>>>
          /\ ~Degenerate(quad.points) =>
                \A k \in 1..4 : MapsTo(warp_matrix, quad.points[k], dst_corners[k])

C19_Witness ==
    /\ pc = "warped"
    /\ contour.found
    /\ Len(contour.approx) = 5
    /\ quad.points = FallbackCorners(board_crop)

----------------------------------------------------------------------------
(* Properties of concurrent invocations.                                    *)

\* what the function returns when it runs alone on the arguments
Alone(call) ==
    CASE call.op = "order_corners" -> order_corners(call.args)
      [] call.op = "map_pieces_to_squares" ->
            map_pieces_to_squares(call.args.dets, call.args.bbox, call.args.M)
      [] call.op = "generate_fen" -> generate_fen(call.args)
      [] call.op = "validate_fen" -> validate_fen(call.args)

\* C16: under any interleaving of concurrent invocations of order_corners,
\* map_pieces_to_squares, generate_fen and validate_fen, each invocation
\* works on its own arguments and returns what it returns when run alone on
\* them.
C16_Isolated ==
    \A t \in Threads :
        /\ threads[t].status = "running" => frames[FrameOf(t)].args = calls[t].args
        /\ threads[t].status = "returned" => threads[t].result = Alone(calls[t])

C16_Witness ==
    /\ threads[1].status = "returned"
    /\ threads[2].status = "running"
    /\ frames[2].i > 0
    /\ calls[1].op = calls[2].op
    /\ calls[1].args # calls[2].args

\* no step of an invocation writes to an argument object
ArgumentsUnchanged == [][calls' = calls]_vars

----------------------------------------------------------------------------
(* Order of the detection list.                                             *)

\* the permutations of 1..n
PermsOf(n) == {p \in [1..n -> 1..n] : \A i, j \in 1..n : p[i] = p[j] => i = j}

\* the permutations of each length a detection list can have
ListPerms == [n \in 0..MaxList |-> PermsOf(n)]

\* the detection list in the order p
Reordered(dets, p) == [i \in 1..Len(dets) |-> dets[p[i]]]

\* the detections that land on one square have pairwise distinct confidences
DistinctConfidencePerSquare ==
    \A i, j \in 1..Len(piece_detections) :
        (i # j /\ landed[i] = landed[j])
        => piece_detections[i].confidence # piece_detections[j].confidence

\* C21: if the detections landing on each square have pairwise distinct
\* confidences, map_pieces_to_squares returns the same occupancy map for
\* every permutation of the detection list; the order can change the map
\* only between detections on one square with equal confidence.
C21_OrderIndependent ==
    (pc = "mapped" /\ DistinctConfidencePerSquare) =>
        \A p \in ListPerms[Len(piece_detections)] :
            map_pieces_to_squares(Reordered(piece_detections, p), board_bbox, warp_matrix)
                = square_map

\* a later detection of higher confidence has taken a square from an earlier
\* one of another label, beside a third detection
C21_Witness ==
    /\ pc = "mapped"
    /\ DistinctConfidencePerSquare
    /\ Len(piece_detections) = 3
    /\ \E i, j \in 1..3 :
          /\ i < j
          /\ landed[i] = landed[j]
          /\ piece_detections[i].confidence < piece_detections[j].confidence
          /\ piece_detections[i].class_name # piece_detections[j].class_name

\* where equal confidences share a square the order does change the map
OrderIndependentAlways ==
    pc = "mapped" =>
        \A p \in ListPerms[Len(piece_detections)] :
            map_pieces_to_squares(Reordered(piece_detections, p), board_bbox, warp_matrix)
                = square_map

============================================================================
